---- MODULE Spec2Model ----
(***************************************************************************)
(* Model of "Metricas de Veiculos" (src/dashboard_melhorado.py): the       *)
(* overlay store of planned/paid values (JSON file + per-browser session   *)
(* store + the editable table), the Dash callbacks that read and write it, *)
(* and the data preparation that derives the monthly view totals.          *)
(*                                                                         *)
(* Specifications:                                                         *)
(*   Spec         callbacks run one at a time (one request at a time)      *)
(*   SpecThreads  callbacks run in threads, one step of I/O at a time      *)
(*   SpecPrepare  _prepare_df applied to one source row, month by month    *)
(*   SpecNormalize  _normalize applied to a header, twice                  *)
(*   SpecNumeric  clean_numeric applied to one cell                        *)
(*   SpecResolve  _resolve_views on the columns of a sheet                 *)
(*   SpecFields   _prepare_df: the fields of a row from the columns        *)
(*   SpecLoad     load_data: the sources in turn                           *)
(*   SpecFlask    src/main_sheets.py: /api/data and /api/refresh           *)
(***************************************************************************)
EXTENDS Integers, Sequences, FiniteSets, TLC

VARIABLES
    inodes,     \* the files' contents: inode -> [c: content, lk: flock holder]
    dirPath,    \* the inode VALORES_JSON_PATH names (0: no such file)
    dirTmp,     \* the inode "<VALORES_JSON_PATH>.tmp" names (0: no such file)
    memLock,    \* _MEM_LOCK: 0 free, else the thread that acquired it
    dfBase,     \* DF_BASE: the names (column nome_do_veiculo) of the loaded rows
    store,      \* dcc.Store "store_valores" of each browser session
    table,      \* DataTable "tbl" data of each browser session
    fsites,     \* the value of the filter f_sites of each session
    nReload,    \* n_clicks of "btn-reload" of each session
    pend,       \* callbacks a click on "btn-reload" has triggered and not yet run
    th,         \* the request threads (SpecThreads)
    last,       \* history: what the last finished callback did
    lastEdit,   \* history: per displayed name, the most recent edited values
    nFaults,    \* history: I/O operations that have failed so far
    written,    \* history: the names passed to a write that replaced the file
    nOps,       \* history: callbacks run so far
    prep        \* SpecPrepare: the row being prepared

vars == <<inodes, dirPath, dirTmp, memLock, dfBase, store, table, fsites,
          nReload, pend, th, last, lastEdit, nFaults, written, nOps, prep>>

----------------------------------------------------------------------------
(* Bounds *)

NSessions == 2
MaxOps == 4
MaxClicks == 1
MaxVal == 1
MaxFaults == 1
NIno == 3

Sessions == 1..NSessions
Threads == Sessions
EditVals == 1..MaxVal

\* a missing key of a dict / a None cell
Absent == 0 - 1

----------------------------------------------------------------------------
(* Names: strings as sequences of characters *)

NameA == <<"a">>
NameB == <<"b">>
NameSpA == <<" ", "a">>

IsSpace(c) == c \in {" ", "\t", "\n"}

RECURSIVE LStrip(_)
LStrip(s) == IF s # <<>> /\ IsSpace(Head(s)) THEN LStrip(Tail(s)) ELSE s

RECURSIVE RStrip(_)
RStrip(s) ==
    IF s # <<>> /\ IsSpace(s[Len(s)]) THEN RStrip(SubSeq(s, 1, Len(s) - 1)) ELSE s

\* str.strip()
Strip(s) == RStrip(LStrip(s))

\* the source datasets considered: distinct names, a repeated name, a name
\* with leading whitespace
Sources == {<<NameA, NameB>>, <<NameA, NameA>>, <<NameSpA, NameB>>}

----------------------------------------------------------------------------
(* Overlay dictionaries: name -> entry *)

EmptyDict == <<>>

\* an entry {"valor_planejado": vp, "valor_pago": pg [, "saldo": sd]};
\* dict = FALSE: a JSON value that is not an object (a number, a list)
Entry(vp, pg, sd) == [dict |-> TRUE, vp |-> vp, pg |-> pg, sd |-> sd]
EmptyEntry == Entry(Absent, Absent, Absent)
NonDictEntry == [dict |-> FALSE, vp |-> Absent, pg |-> Absent, sd |-> Absent]

Put(d, k, v) == (k :> v) @@ d

\* {**a, **b}
DictMerge(a, b) == b @@ a

\* x or y, for dicts
DictOr(x, y) == IF x = EmptyDict THEN y ELSE x

\* float(x or 0) of a number or None
FloatOr0(x) == IF x = Absent THEN 0 ELSE x

----------------------------------------------------------------------------
(* Files *)

FreeC == [k |-> "free", d |-> EmptyDict]
EmptyC == [k |-> "empty", d |-> EmptyDict]
PartialC == [k |-> "partial", d |-> EmptyDict]
GarbledC == [k |-> "garbled", d |-> EmptyDict]
NonObjC == [k |-> "nonobj", d |-> EmptyDict]
NoFileC == [k |-> "nofile", d |-> EmptyDict]

\* json.dump(data, f, sort_keys=True): the complete serialization of data
JsonC(data) == [k |-> "json", d |-> data]

\* the content of the file at VALORES_JSON_PATH
PathContent == IF dirPath = 0 THEN NoFileC ELSE inodes[dirPath].c

\* the store the file holds, when it holds one
DiskDict == IF PathContent.k = "json" THEN PathContent.d ELSE EmptyDict

----------------------------------------------------------------------------
(* _read_persisted_vals *)

\* the body of the try: open, json.load, isinstance(data, dict)
ReadTry(c, openFails) ==
    IF openFails THEN [exc |-> TRUE, isDict |-> TRUE, data |-> EmptyDict]
    ELSE IF c.k = "json" THEN [exc |-> FALSE, isDict |-> TRUE, data |-> c.d]
    ELSE IF c.k = "nonobj" THEN [exc |-> FALSE, isDict |-> TRUE, data |-> EmptyDict]
    ELSE [exc |-> TRUE, isDict |-> TRUE, data |-> EmptyDict]

\* a reader without the except clause and without the isinstance test
ReadPersistedValsUnguarded(c, openFails) ==
    IF c.k = "nofile" THEN [raised |-> FALSE, isDict |-> TRUE, data |-> EmptyDict]
    ELSE [raised |-> openFails \/ c.k \notin {"json", "nonobj"},
          isDict |-> c.k # "nonobj",
          data |-> IF c.k = "json" /\ ~openFails THEN c.d ELSE EmptyDict]

\* what the call returns: raised (an exception left the function), isDict
\* (the value returned is a dict), data (that dict)
ReadPersistedVals(c, openFails) ==
    IF c.k = "nofile" THEN [raised |-> FALSE, isDict |-> TRUE, data |-> EmptyDict]
    ELSE LET r == ReadTry(c, openFails)
         IN IF r.exc THEN [raised |-> FALSE, isDict |-> TRUE, data |-> EmptyDict]
            ELSE [raised |-> FALSE, isDict |-> r.isDict, data |-> r.data]

\* the read faults that can happen: open() of an existing file may fail
ReadFaults == IF dirPath = 0 \/ nFaults >= MaxFaults THEN {FALSE} ELSE BOOLEAN

\* the outcomes of a write: it may fail (directory, open, dump, replace)
WriteOks == IF nFaults >= MaxFaults THEN {TRUE} ELSE BOOLEAN

Fault(b) == IF b THEN 1 ELSE 0

----------------------------------------------------------------------------
(* _merge_persisted_into_df *)

\* _get(nome, key): float(persisted.get(str(nome), {}).get(key, 0) or 0),
\* 0.0 when that raises (the entry is not a dict)
MergeGet(persisted, nome, key) ==
    IF nome \notin DOMAIN persisted THEN 0
    ELSE LET e == persisted[nome]
         IN IF ~e.dict THEN 0 ELSE FloatOr0(e[key])

Row(nome, vp, pg, sd) == [nome |-> nome, vp |-> vp, pg |-> pg, sd |-> sd]

\* a merge that takes a stored "saldo" when the entry has one
MergeRowStoredSaldo(persisted, nome) ==
    LET vp == MergeGet(persisted, nome, "vp")
        pg == MergeGet(persisted, nome, "pg")
        has == /\ nome \in DOMAIN persisted
               /\ persisted[nome].dict
               /\ persisted[nome].sd # Absent
    IN Row(nome, vp, pg, IF has THEN persisted[nome].sd ELSE vp - pg)

\* one record of the result: valor_planejado, valor_pago, saldo
MergeRow(persisted, nome) ==
    LET vp == MergeGet(persisted, nome, "vp")
        pg == MergeGet(persisted, nome, "pg")
    IN Row(nome, vp, pg, vp - pg)

MergePersistedIntoDf(df, persisted) ==
    [i \in DOMAIN df |-> MergeRow(persisted, df[i])]

----------------------------------------------------------------------------
(* atualizar: the part that decides the table *)

Range(q) == {q[i] : i \in DOMAIN q}

RECURSIVE SelectNames(_, _)
SelectNames(q, f) ==
    IF q = <<>> THEN <<>>
    ELSE IF Head(q) \in f THEN <<Head(q)>> \o SelectNames(Tail(q), f)
    ELSE SelectNames(Tail(q), f)

\* _filtrar, filter f_sites (the other filters select rows the same way)
Filtrar(base, sites) == IF sites = {} THEN base ELSE SelectNames(base, sites)

\* load_data(): the source holds the rows it held at start
LoadData == dfBase

\* the overlay atualizar merges into the rows
AtualizarOverlay(storeVals, persisted) ==
    DictMerge(persisted, DictOr(storeVals, persisted))

AtualizarTable(s, sites, r) ==
    LET base == IF nReload[s] > 0 THEN LoadData ELSE dfBase
    IN MergePersistedIntoDf(Filtrar(base, sites), AtualizarOverlay(store[s], r.data))

----------------------------------------------------------------------------
(* persistir_valores *)

\* the loop over the rows of the table; raised: d is not a dict, so d.get
\* raises in the try and again in the except clause
RECURSIVE PersistRows(_, _, _)
PersistRows(rows, i, upd) ==
    IF i > Len(rows) THEN [raised |-> FALSE, updated |-> upd]
    ELSE LET nome == Strip(rows[i].nome)
         IN IF nome = <<>> THEN PersistRows(rows, i + 1, upd)
            ELSE LET d == IF nome \in DOMAIN upd THEN upd[nome] ELSE EmptyEntry
                 IN IF ~d.dict THEN [raised |-> TRUE, updated |-> upd]
                    ELSE PersistRows(rows, i + 1,
                            Put(upd, nome, [d EXCEPT !.vp = FloatOr0(rows[i].vp),
                                                     !.pg = FloatOr0(rows[i].pg)]))

\* a loop that adds the values of the row to the values of the entry
RECURSIVE PersistRowsAdd(_, _, _)
PersistRowsAdd(rows, i, upd) ==
    IF i > Len(rows) THEN [raised |-> FALSE, updated |-> upd]
    ELSE LET nome == Strip(rows[i].nome)
         IN IF nome = <<>> THEN PersistRowsAdd(rows, i + 1, upd)
            ELSE LET d == IF nome \in DOMAIN upd THEN upd[nome] ELSE EmptyEntry
                 IN IF ~d.dict THEN [raised |-> TRUE, updated |-> upd]
                    ELSE PersistRowsAdd(rows, i + 1,
                            Put(upd, nome, [d EXCEPT !.vp = FloatOr0(@) + FloatOr0(rows[i].vp),
                                                     !.pg = FloatOr0(@) + FloatOr0(rows[i].pg)]))

PersistirValoresAdd(tableData, storeVals, currentFile) ==
    LET sv == DictOr(storeVals, currentFile)
    IN IF tableData = <<>> THEN [raised |-> FALSE, write |-> FALSE, ret |-> sv]
       ELSE LET p == PersistRowsAdd(tableData, 1, DictMerge(currentFile, sv))
            IN [raised |-> p.raised, write |-> ~p.raised, ret |-> p.updated]

\* the callback up to the write: raised, write (a write follows), ret (the
\* value returned when nothing raises)
PersistirValores(tableData, storeVals, currentFile) ==
    LET sv == DictOr(storeVals, currentFile)
    IN IF tableData = <<>> THEN [raised |-> FALSE, write |-> FALSE, ret |-> sv]
       ELSE LET p == PersistRows(tableData, 1, DictMerge(currentFile, sv))
            IN [raised |-> p.raised, write |-> ~p.raised, ret |-> p.updated]

\* recarregar_store: the merged store, written and returned
RecarregarStore(currentStore, persisted) == DictMerge(persisted, currentStore)

\* what _write_persisted_vals returns to its caller
WriteReturns(ok) == "None"

----------------------------------------------------------------------------
(* Initial states *)

\* an entry of the file found at start: a planned and a paid value, and a
\* "saldo" key that disagrees with them
InitEntry == Entry(2, 1, 2)

\* the files the program may find at VALORES_JSON_PATH when it starts
InitFiles ==
    {NoFileC,
     JsonC(NameA :> InitEntry),
     JsonC(NameA :> NonDictEntry),
     GarbledC,
     NonObjC}

ThIdle ==
    [pc |-> "idle", kind |-> "none", tab |-> <<>>, sv |-> EmptyDict,
     data |-> EmptyDict, h |-> 0, calls |-> 0]

\* op: the callback; raised: an exception left it; rk: the content the read
\* found; rfault: open() failed in the read; rempty: the read returned {};
\* wfail: the write was tried and failed; wret: what the write returned;
\* nome, col: the cell an edit changed; again: the callback got the table it
\* got the time before; click: a click on "Atualizar dados" triggered the
\* callback; loaded: the callback called load_data()
LastInit ==
    [op |-> "init", s |-> 0, raised |-> FALSE, rk |-> "none", rfault |-> FALSE,
     rempty |-> TRUE, wfail |-> FALSE, wret |-> "None", nome |-> <<>>, col |-> "none",
     again |-> FALSE, click |-> FALSE, loaded |-> FALSE]

PrepIdle == [pc |-> "off"]

\* the store and the lock after the module is loaded: PERSISTED_VALUES is
\* read once and is the initial data of every session's store_valores
InitOverlay(files, sources) ==
    /\ \E c \in files :
          /\ inodes = [i \in 1..NIno |->
                          [c |-> IF i = 1 /\ c.k # "nofile" THEN c ELSE FreeC, lk |-> 0]]
          /\ dirPath = (IF c.k = "nofile" THEN 0 ELSE 1)
          /\ store = [s \in Sessions |-> ReadPersistedVals(c, FALSE).data]
    /\ dirTmp = 0
    /\ memLock = 0
    /\ dfBase \in sources
    /\ table = [s \in Sessions |-> <<>>]
    /\ fsites = [s \in Sessions |-> {}]
    /\ nReload = [s \in Sessions |-> 0]
    /\ pend = [s \in Sessions |-> {}]
    /\ th = [t \in Threads |-> ThIdle]
    /\ last = LastInit
    /\ lastEdit = EmptyDict
    /\ nFaults = 0
    /\ written = {}
    /\ nOps = 0

Init == InitOverlay(InitFiles, Sources) /\ prep = PrepIdle

----------------------------------------------------------------------------
(* Spec: the callbacks, one at a time *)

\* _write_persisted_vals run to its end without another thread in between:
\* the temporary file is written and replaces the store, or (ok = FALSE) a
\* step raises before the replace and the store stays as it is
WriteWhole(data, ok) ==
    IF ok
    THEN /\ inodes' = [inodes EXCEPT ![1] = [c |-> JsonC(data), lk |-> 0]]
         /\ dirPath' = 1
         /\ written' = written \cup DOMAIN data
    ELSE UNCHANGED <<inodes, dirPath, written>>

\* the values f_sites can take: the empty selection or some of the names
SiteChoices == {f \in SUBSET Range(dfBase) : f # Range(dfBase)}

RunAtualizar(s, sites, rf, click) ==
    LET r == ReadPersistedVals(PathContent, rf)
    IN /\ table' = [table EXCEPT ![s] = IF r.raised THEN @ ELSE AtualizarTable(s, sites, r)]
       /\ last' = [LastInit EXCEPT !.op = "atualizar", !.s = s, !.raised = r.raised,
                                   !.rk = PathContent.k, !.rfault = rf,
                                   !.click = click, !.loaded = (nReload[s] > 0),
                                   !.rempty = (r.isDict /\ r.data = EmptyDict)]
       /\ nFaults' = nFaults + Fault(rf)

\* atualizar, triggered by the page load or by a change of a filter
Atualizar(s, sites, rf) ==
    /\ nOps < MaxOps
    /\ nOps' = nOps + 1
    /\ fsites' = [fsites EXCEPT ![s] = sites]
    /\ RunAtualizar(s, sites, rf, FALSE)
    /\ UNCHANGED <<inodes, dirPath, dirTmp, memLock, dfBase, store, nReload, pend,
                   th, lastEdit, written, prep>>

\* a click on "Atualizar dados": n_clicks grows, atualizar and
\* recarregar_store are triggered (two callbacks, counted here)
ClickReload(s) ==
    /\ nOps + 2 <= MaxOps
    /\ nOps' = nOps + 2
    /\ nReload[s] < MaxClicks
    /\ pend[s] = {}
    /\ nReload' = [nReload EXCEPT ![s] = @ + 1]
    /\ pend' = [pend EXCEPT ![s] = {"atualizar", "recarregar"}]
    /\ UNCHANGED <<inodes, dirPath, dirTmp, memLock, dfBase, store, table, fsites,
                   th, last, lastEdit, nFaults, written, prep>>

\* atualizar, triggered by the click
AtualizarReload(s, rf) ==
    /\ "atualizar" \in pend[s]
    /\ pend' = [pend EXCEPT ![s] = @ \ {"atualizar"}]
    /\ RunAtualizar(s, fsites[s], rf, TRUE)
    /\ UNCHANGED <<inodes, dirPath, dirTmp, memLock, dfBase, store, fsites, nReload,
                   th, lastEdit, written, nOps, prep>>

\* persistir_valores, run because the user has entered v in cell col of row
\* i of the table: the table's data_timestamp changes and the callback gets
\* the table with v in that cell
EditCell(s, i, col, v, rf, wok) ==
    /\ nOps < MaxOps
    /\ LET tab == [table[s] EXCEPT ![i][col] = v]
           r == ReadPersistedVals(PathContent, rf)
           p == PersistirValores(tab, store[s], r.data)
           done == ~r.raised /\ ~p.raised
           w == done /\ p.write
           nome == tab[i].nome
           old == IF nome \in DOMAIN lastEdit THEN lastEdit[nome]
                  ELSE [vp |-> Absent, pg |-> Absent]
       IN /\ table' = [table EXCEPT ![s] = tab]
          /\ store' = IF done THEN [store EXCEPT ![s] = p.ret] ELSE store
          /\ WriteWhole(p.ret, w /\ wok)
          /\ lastEdit' = IF done THEN Put(lastEdit, nome, [old EXCEPT ![col] = v])
                         ELSE lastEdit
          /\ last' = [LastInit EXCEPT !.op = "persistir", !.s = s,
                          !.raised = ~done, !.rk = PathContent.k, !.rfault = rf,
                          !.rempty = (r.isDict /\ r.data = EmptyDict),
                          !.wfail = (w /\ ~wok), !.wret = WriteReturns(wok),
                          !.nome = nome, !.col = col, !.again = (tab = table[s])]
          /\ nFaults' = nFaults + Fault(rf) + Fault(w /\ ~wok)
    /\ nOps' = nOps + 1
    /\ UNCHANGED <<dirTmp, memLock, dfBase, fsites, nReload, pend, th, prep>>

\* the user changes cell col of row i of the table to v
Edit(s, i, col, v, rf, wok) ==
    /\ i \in DOMAIN table[s]
    /\ table[s][i][col] # v
    /\ EditCell(s, i, col, v, rf, wok)

\* the user enters in a cell the value it holds, right after an edit of the
\* same session: the callback runs again with the same table and with the
\* store the first run returned
Reenter(s, i, col, rf, wok) ==
    /\ i \in DOMAIN table[s]
    /\ last.op = "persistir" /\ last.s = s /\ ~last.raised
    /\ EditCell(s, i, col, table[s][i][col], rf, wok)

\* recarregar_store, triggered by the click
Recarregar(s, rf, wok) ==
    /\ "recarregar" \in pend[s]
    /\ pend' = [pend EXCEPT ![s] = @ \ {"recarregar"}]
    /\ LET r == ReadPersistedVals(PathContent, rf)
           merged == RecarregarStore(store[s], r.data)
       IN /\ store' = IF r.raised THEN store ELSE [store EXCEPT ![s] = merged]
          /\ WriteWhole(merged, ~r.raised /\ wok)
          /\ last' = [LastInit EXCEPT !.op = "recarregar", !.s = s,
                          !.raised = r.raised, !.rk = PathContent.k, !.rfault = rf,
                          !.rempty = (r.isDict /\ r.data = EmptyDict),
                          !.wfail = (~r.raised /\ ~wok), !.wret = WriteReturns(wok)]
          /\ nFaults' = nFaults + Fault(rf) + Fault(~r.raised /\ ~wok)
    /\ UNCHANGED <<nOps, dirTmp, memLock, dfBase, table, fsites, nReload, lastEdit, th, prep>>

Next ==
    \/ \E s \in Sessions, f \in SiteChoices, rf \in ReadFaults : Atualizar(s, f, rf)
    \/ \E s \in Sessions : ClickReload(s)
    \/ \E s \in Sessions, rf \in ReadFaults : AtualizarReload(s, rf)
    \/ \E s \in Sessions, i \in 1..2, col \in {"vp", "pg"}, v \in EditVals,
          rf \in ReadFaults, wok \in WriteOks : Edit(s, i, col, v, rf, wok)
    \/ \E s \in Sessions, i \in 1..2, col \in {"vp", "pg"},
          rf \in ReadFaults, wok \in WriteOks : Reenter(s, i, col, rf, wok)
    \/ \E s \in Sessions, rf \in ReadFaults, wok \in WriteOks : Recarregar(s, rf, wok)

Spec == Init /\ [][Next]_vars

----------------------------------------------------------------------------
(* Properties of the overlay under Spec *)

\* the names of the source are distinct and carry no outer whitespace
CleanSource ==
    /\ \A i \in DOMAIN dfBase : Strip(dfBase[i]) = dfBase[i]
    /\ \A i, j \in DOMAIN dfBase : dfBase[i] = dfBase[j] => i = j

\* the row shows the values most recently edited for its name
ShowsLastEdit(r) ==
    r.nome \in DOMAIN lastEdit =>
        /\ lastEdit[r.nome].vp # Absent => r.vp = lastEdit[r.nome].vp
        /\ lastEdit[r.nome].pg # Absent => r.pg = lastEdit[r.nome].pg

\* C1: once an edit has stored a planned or paid value v for a name, every
\* later refresh (atualizar), by any session, shows v for that name until
\* the name is edited again.  Stated for sources with distinct names without
\* outer whitespace and for runs without I/O failures.
C1_OverlaySurvivesRefresh ==
    (CleanSource /\ nFaults = 0 /\ last.op = "atualizar" /\ ~last.raised) =>
        \A i \in DOMAIN table[last.s] : ShowsLastEdit(table[last.s][i])

\* C2: an edit of one name leaves the values stored for every other name
\* unchanged, in the file and in the session store persistir_valores returns.
\* Stated for sources with distinct names without outer whitespace and for
\* runs without I/O failures.
C2_EditsIndependent ==
    [][(CleanSource /\ nFaults' = 0 /\ nOps' # nOps
            /\ last'.op = "persistir" /\ ~last'.raised) =>
          /\ \A m \in DOMAIN DiskDict :
                m # Strip(last'.nome) => m \in DOMAIN DiskDict' /\ DiskDict'[m] = DiskDict[m]
          /\ \A m \in DOMAIN store[last'.s] :
                m # Strip(last'.nome) => store'[last'.s][m] = store[last'.s][m]]_vars

\* C4: the value the file holds for a name is the value of the most recent
\* edit of that name, whatever the sessions cached before.  Stated for
\* sources with distinct names without outer whitespace and for runs without
\* I/O failures.
C4_LastWriterWins ==
    (CleanSource /\ nFaults = 0) =>
        \A n \in DOMAIN lastEdit :
            /\ n \in DOMAIN DiskDict
            /\ lastEdit[n].vp # Absent => DiskDict[n].vp = lastEdit[n].vp
            /\ lastEdit[n].pg # Absent => DiskDict[n].pg = lastEdit[n].pg

\* C5: when the write of an edit fails, the session store holds the edited
\* value and what the write hands back differs from what a successful write
\* hands back.  Stated for sources with distinct names without outer
\* whitespace.
C5_WriteFailureSurfaced ==
    (CleanSource /\ last.op = "persistir" /\ last.wfail) =>
        /\ Strip(last.nome) \in DOMAIN store[last.s]
        /\ last.wret # WriteReturns(TRUE)

\* C7: _read_persisted_vals raises nothing and returns the empty store when
\* the file is missing, unreadable, not JSON or JSON that is no object, and
\* the refresh that called it completes.
C7_ReadNeverRaises ==
    (last.op # "init" /\ (last.rfault \/ last.rk \in {"nofile", "garbled", "nonobj", "empty", "partial"})) =>
        /\ last.rempty
        /\ last.op \in {"atualizar", "recarregar"} => ~last.raised

C7_Witness ==
    /\ last.op = "atualizar" /\ last.rk = "garbled"
    /\ ~last.raised /\ table[last.s] # <<>>

\* every store, on disk and in the sessions
AllStores == {DiskDict} \cup {store[s] : s \in Sessions}

\* C8: every record produced by _merge_persisted_into_df has saldo =
\* valor_planejado - valor_pago, whatever the overlay holds, and no saldo is
\* ever written to a store (the only stored saldo is the one the initial
\* file brought).
C8_BalanceDerived ==
    /\ (last.op = "atualizar" /\ ~last.raised) =>
           \A i \in DOMAIN table[last.s] :
               table[last.s][i].sd = table[last.s][i].vp - table[last.s][i].pg
    /\ \A d \in AllStores : \A n \in DOMAIN d :
           d[n].sd # Absent => n = NameA /\ d[n].sd = InitEntry.sd

C8_Witness ==
    /\ last.op = "atualizar"
    /\ NameA \in DOMAIN DiskDict /\ DiskDict[NameA] = InitEntry
    /\ \E i \in DOMAIN table[last.s] :
          table[last.s][i] = Row(NameA, InitEntry.vp, InitEntry.pg, InitEntry.vp - InitEntry.pg)

----------------------------------------------------------------------------
(* SpecThreads: the callbacks run in request threads (thread t serves the   *)
(* browser session t), one step of file or lock I/O at a time               *)

MaxCalls == 2

\* the column the users edit in SpecThreads (valor_pago)
ThreadEditCols == {"pg"}

\* the length of the text json.dump writes (separators "," and ":", values
\* printed as d.d)
KeyLen(key) == IF key = "sd" THEN 5 ELSE IF key = "pg" THEN 10 ELSE 15

EntryLen(e) ==
    IF ~e.dict THEN 1
    ELSE LET ks == {key \in {"vp", "pg", "sd"} : e[key] # Absent}
             RECURSIVE Sum(_)
             Sum(S) == IF S = {} THEN 0
                       ELSE LET key == CHOOSE x \in S : TRUE
                            IN KeyLen(key) + 6 + Sum(S \ {key})
         IN 2 + Sum(ks) + (IF ks = {} THEN 0 ELSE Cardinality(ks) - 1)

RECURSIVE JsonLenOf(_, _)
JsonLenOf(d, names) ==
    IF names = {} THEN 0
    ELSE LET n == CHOOSE x \in names : TRUE
         IN Len(n) + 3 + EntryLen(d[n]) + JsonLenOf(d, names \ {n})

JsonLen(d) ==
    2 + JsonLenOf(d, DOMAIN d) + (IF d = EmptyDict THEN 0 ELSE Cardinality(DOMAIN d) - 1)

\* the inodes a name or an open file refers to, given the handles
Referenced(p, q, thr) == ({p, q} \cup {thr[t].h : t \in Threads}) \ {0}

\* an inode no name and no open file refers to is gone
Reclaim(ino, p, q, thr) ==
    [i \in 1..NIno |->
        IF i \in Referenced(p, q, thr) THEN ino[i] ELSE [c |-> FreeC, lk |-> 0]]

FreshInode == CHOOSE i \in 1..NIno : i \notin Referenced(dirPath, dirTmp, th)

\* the faults a step can suffer
StepFaults == IF nFaults >= MaxFaults THEN {FALSE} ELSE BOOLEAN

\* the callback returns: the thread is idle again
Returned(t) == [ThIdle EXCEPT !.calls = th[t].calls + 1]

\* a callback starts: its State arguments are read
Started(t, kind, tab) ==
    [th[t] EXCEPT !.pc = "r_open", !.kind = kind, !.tab = tab, !.sv = store[t]]

\* atualizar starts (page load or a change of the filter)
TBeginAtualizar(t, sites) ==
    /\ th[t].pc = "idle" /\ th[t].calls < MaxCalls /\ pend[t] = {}
    /\ fsites' = [fsites EXCEPT ![t] = sites]
    /\ th' = [th EXCEPT ![t] = Started(t, "atualizar", <<>>)]
    /\ UNCHANGED <<inodes, dirPath, dirTmp, memLock, dfBase, store, table, nReload,
                   pend, last, lastEdit, nFaults, written, nOps, prep>>

\* the user edits a cell: persistir_valores starts with the edited table
TBeginEdit(t, i, col, v) ==
    /\ th[t].pc = "idle" /\ th[t].calls < MaxCalls /\ pend[t] = {}
    /\ i \in DOMAIN table[t]
    /\ table[t][i][col] # v
    /\ table' = [table EXCEPT ![t][i][col] = v]
    /\ th' = [th EXCEPT ![t] = Started(t, "persistir", table'[t])]
    /\ UNCHANGED <<inodes, dirPath, dirTmp, memLock, dfBase, store, fsites, nReload,
                   pend, last, lastEdit, nFaults, written, nOps, prep>>

\* a click on "Atualizar dados"
TClick(t) ==
    /\ th[t].pc = "idle" /\ th[t].calls + 2 <= MaxCalls /\ pend[t] = {}
    /\ nReload[t] < MaxClicks
    /\ nReload' = [nReload EXCEPT ![t] = @ + 1]
    /\ pend' = [pend EXCEPT ![t] = {"atualizar", "recarregar"}]
    /\ UNCHANGED <<inodes, dirPath, dirTmp, memLock, dfBase, store, table, fsites,
                   th, last, lastEdit, nFaults, written, nOps, prep>>

\* a callback the click triggered starts
TBeginPending(t, kind) ==
    /\ th[t].pc = "idle" /\ kind \in pend[t]
    /\ pend' = [pend EXCEPT ![t] = @ \ {kind}]
    /\ th' = [th EXCEPT ![t] = Started(t, kind, <<>>)]
    /\ UNCHANGED <<inodes, dirPath, dirTmp, memLock, dfBase, store, table, fsites,
                   nReload, last, lastEdit, nFaults, written, nOps, prep>>

\* the callback goes on with what _read_persisted_vals returned: atualizar
\* builds the table; persistir_valores and recarregar_store build the store
\* they are going to write
AfterRead(t, r, thr) ==
    LET me == thr[t]
    IN IF r.raised THEN
            /\ th' = [thr EXCEPT ![t] = Returned(t)]
            /\ UNCHANGED <<table, store>>
       ELSE IF me.kind = "atualizar" THEN
            /\ table' = [table EXCEPT ![t] =
                   LET base == IF nReload[t] > 0 THEN LoadData ELSE dfBase
                   IN MergePersistedIntoDf(Filtrar(base, fsites[t]),
                                           AtualizarOverlay(me.sv, r.data))]
            /\ th' = [thr EXCEPT ![t] = Returned(t)]
            /\ UNCHANGED store
       ELSE IF me.kind = "persistir" THEN
            LET p == PersistirValores(me.tab, me.sv, r.data)
            IN /\ th' = [thr EXCEPT ![t] =
                      IF p.raised \/ ~p.write THEN Returned(t)
                      ELSE [me EXCEPT !.pc = "w_dir", !.data = p.ret]]
               /\ store' = IF ~p.raised /\ ~p.write
                           THEN [store EXCEPT ![t] = p.ret] ELSE store
               /\ UNCHANGED table
       ELSE /\ th' = [thr EXCEPT ![t] =
                   [me EXCEPT !.pc = "w_dir", !.data = RecarregarStore(me.sv, r.data)]]
            /\ UNCHANGED <<table, store>>

\* _read_persisted_vals: os.path.exists and open
TReadOpen(t, fail) ==
    /\ th[t].pc = "r_open"
    /\ fail => dirPath # 0
    /\ IF dirPath = 0 \/ fail
       THEN AfterRead(t, ReadPersistedVals(PathContent, fail), th)
       ELSE /\ th' = [th EXCEPT ![t].pc = "r_load", ![t].h = dirPath]
            /\ UNCHANGED <<table, store>>
    /\ nFaults' = nFaults + Fault(fail)
    /\ UNCHANGED <<inodes, dirPath, dirTmp, memLock, dfBase, fsites, nReload, pend,
                   last, lastEdit, written, nOps, prep>>

\* _read_persisted_vals: flock, json.load, unlock, close
TReadLoad(t) ==
    /\ th[t].pc = "r_load"
    /\ inodes[th[t].h].lk = 0
    /\ LET closed == [th EXCEPT ![t].h = 0]
       IN /\ AfterRead(t, ReadPersistedVals(inodes[th[t].h].c, FALSE), closed)
          /\ inodes' = Reclaim(inodes, dirPath, dirTmp, closed)
    /\ UNCHANGED <<dirPath, dirTmp, memLock, dfBase, fsites, nReload, pend,
                   last, lastEdit, nFaults, written, nOps, prep>>

\* _write_persisted_vals: _safe_dir_for(path); when it raises, control goes
\* to the except and finally clauses
TWriteDir(t, fail) ==
    /\ th[t].pc = "w_dir"
    /\ th' = [th EXCEPT ![t].pc = IF fail THEN "w_fin" ELSE "w_acq"]
    /\ nFaults' = nFaults + Fault(fail)
    /\ UNCHANGED <<inodes, dirPath, dirTmp, memLock, dfBase, store, table, fsites,
                   nReload, pend, last, lastEdit, written, nOps, prep>>

\* _MEM_LOCK.acquire()
TWriteAcquire(t) ==
    /\ th[t].pc = "w_acq"
    /\ memLock = 0
    /\ memLock' = t
    /\ th' = [th EXCEPT ![t].pc = "w_open"]
    /\ UNCHANGED <<inodes, dirPath, dirTmp, dfBase, store, table, fsites, nReload,
                   pend, last, lastEdit, nFaults, written, nOps, prep>>

\* open(tmp, "w"): creates the file or truncates the one that is there
TWriteOpen(t, fail) ==
    /\ th[t].pc = "w_open"
    /\ IF fail
       THEN /\ th' = [th EXCEPT ![t].pc = "w_fin"]
            /\ UNCHANGED <<inodes, dirTmp>>
       ELSE LET i == IF dirTmp = 0 THEN FreshInode ELSE dirTmp
            IN /\ inodes' = [inodes EXCEPT ![i].c = EmptyC]
               /\ dirTmp' = i
               /\ th' = [th EXCEPT ![t].pc = "w_wr1", ![t].h = i]
    /\ nFaults' = nFaults + Fault(fail)
    /\ UNCHANGED <<dirPath, memLock, dfBase, store, table, fsites, nReload, pend,
                   last, lastEdit, written, nOps, prep>>

\* flock and the first bytes of json.dump; olen: the length of what the file
\* held when the write began at offset 0
TWriteStart(t) ==
    /\ th[t].pc = "w_wr1"
    /\ inodes[th[t].h].lk = 0
    /\ LET c == inodes[th[t].h].c
           same == c.k = "json" /\ c.d = th[t].data
       IN /\ inodes' = [inodes EXCEPT ![th[t].h] =
                 [c |-> IF c.k = "empty" THEN PartialC
                        ELSE IF same THEN c ELSE GarbledC,
                  lk |-> t]]
          /\ th' = [th EXCEPT ![t].pc = "w_wr2",
                              ![t].sv = EmptyDict, ![t].tab = <<>>,
                              ![t].kind = IF c.k = "json" /\ ~same
                                             /\ JsonLen(c.d) > JsonLen(th[t].data)
                                          THEN "short" ELSE "write"]
    /\ UNCHANGED <<dirPath, dirTmp, memLock, dfBase, store, table, fsites, nReload,
                   pend, last, lastEdit, nFaults, written, nOps, prep>>

\* the rest of json.dump, flush, fsync, unlock, close; when the dump raises
\* (disk full) the file keeps what was written so far
TWriteEnd(t, fail) ==
    /\ th[t].pc = "w_wr2"
    /\ LET c == inodes[th[t].h].c
           closed == [th EXCEPT ![t].pc = IF fail THEN "w_fin" ELSE "w_repl", ![t].h = 0]
           full == IF c.k = "empty" \/ th[t].kind = "short" THEN GarbledC
                   ELSE JsonC(th[t].data)
       IN /\ th' = closed
          /\ inodes' = Reclaim([inodes EXCEPT ![th[t].h] =
                                   [c |-> IF fail THEN c ELSE full, lk |-> 0]],
                               dirPath, dirTmp, closed)
    /\ nFaults' = nFaults + Fault(fail)
    /\ UNCHANGED <<dirPath, dirTmp, memLock, dfBase, store, table, fsites, nReload,
                   pend, last, lastEdit, written, nOps, prep>>

\* os.replace(tmp, path); FileNotFoundError when tmp is gone
TWriteReplace(t) ==
    /\ th[t].pc = "w_repl"
    /\ th' = [th EXCEPT ![t].pc = "w_fin"]
    /\ IF dirTmp = 0
       THEN UNCHANGED <<inodes, dirPath, dirTmp, written>>
       ELSE /\ dirPath' = dirTmp
            /\ dirTmp' = 0
            /\ inodes' = Reclaim(inodes, dirTmp, 0, th')
            /\ written' = written \cup DOMAIN th[t].data
    /\ UNCHANGED <<memLock, dfBase, store, table, fsites, nReload, pend, last,
                   lastEdit, nFaults, nOps, prep>>

\* the finally clause: _MEM_LOCK.release(), whoever holds the lock (release
\* of a free lock raises RuntimeError, which is swallowed); then the callback
\* returns the store it built
TWriteFinally(t) ==
    /\ th[t].pc = "w_fin"
    /\ memLock' = 0
    /\ store' = [store EXCEPT ![t] = th[t].data]
    /\ th' = [th EXCEPT ![t] = Returned(t)]
    /\ UNCHANGED <<inodes, dirPath, dirTmp, dfBase, table, fsites, nReload, pend,
                   last, lastEdit, nFaults, written, nOps, prep>>

\* the process is killed and started again: the requests are lost, the lock
\* and the open files are gone, the files stay as they are
Crash ==
    /\ nFaults < MaxFaults
    /\ \E t \in Threads : th[t].pc # "idle"
    /\ nFaults' = nFaults + 1
    /\ th' = [t \in Threads |-> [ThIdle EXCEPT !.calls = th[t].calls
                                      + IF th[t].pc = "idle" THEN 0 ELSE 1]]
    /\ pend' = [t \in Threads |-> {}]
    /\ memLock' = 0
    /\ inodes' = [i \in 1..NIno |->
                     IF i \in {dirPath, dirTmp} THEN [inodes[i] EXCEPT !.lk = 0]
                     ELSE [c |-> FreeC, lk |-> 0]]
    /\ UNCHANGED <<dirPath, dirTmp, dfBase, store, table, fsites, nReload, last,
                   lastEdit, written, nOps, prep>>

\* the program has started without a store file and the pages of the
\* sessions are loaded: the first atualizar has filled the tables
InitThreads ==
    /\ \E c \in {NoFileC} :
          /\ inodes = [i \in 1..NIno |->
                          [c |-> IF i = 1 /\ c.k # "nofile" THEN c ELSE FreeC, lk |-> 0]]
          /\ dirPath = (IF c.k = "nofile" THEN 0 ELSE 1)
          /\ store = [s \in Sessions |-> ReadPersistedVals(c, FALSE).data]
          /\ table = [s \in Sessions |->
                         MergePersistedIntoDf(<<NameA, NameB>>,
                             AtualizarOverlay(store[s], ReadPersistedVals(c, FALSE).data))]
    /\ dirTmp = 0
    /\ memLock = 0
    /\ dfBase = <<NameA, NameB>>
    /\ fsites = [s \in Sessions |-> {}]
    /\ nReload = [s \in Sessions |-> 0]
    /\ pend = [s \in Sessions |-> {}]
    /\ th = [t \in Threads |-> ThIdle]
    /\ last = LastInit
    /\ lastEdit = EmptyDict
    /\ nFaults = 0
    /\ written = {}
    /\ nOps = 0
    /\ prep = PrepIdle

NextThreads ==
    \/ \E t \in Threads, f \in SiteChoices : TBeginAtualizar(t, f)
    \/ \E t \in Threads, i \in 1..2, col \in ThreadEditCols, v \in EditVals :
          TBeginEdit(t, i, col, v)
    \/ \E t \in Threads : TClick(t)
    \/ \E t \in Threads, kind \in {"atualizar", "recarregar"} : TBeginPending(t, kind)
    \/ \E t \in Threads, fail \in StepFaults : TReadOpen(t, fail)
    \/ \E t \in Threads : TReadLoad(t)
    \/ \E t \in Threads, fail \in StepFaults : TWriteDir(t, fail)
    \/ \E t \in Threads : TWriteAcquire(t)
    \/ \E t \in Threads, fail \in StepFaults : TWriteOpen(t, fail)
    \/ \E t \in Threads : TWriteStart(t)
    \/ \E t \in Threads, fail \in StepFaults : TWriteEnd(t, fail)
    \/ \E t \in Threads : TWriteReplace(t)
    \/ \E t \in Threads : TWriteFinally(t)
    \/ Crash

SpecThreads == InitThreads /\ [][NextThreads]_vars

\* C3: once the callbacks running in different threads have all finished
\* (and no I/O step has failed), the file holds every name any of them
\* passed to a write that replaced the file.
C3_NoLostWrite ==
    (nFaults = 0 /\ \A t \in Threads : th[t].pc = "idle") =>
        written \subseteq DOMAIN DiskDict

\* C6: the file at the store path is absent or holds the complete
\* serialization of a dictionary, in every state.
C6_AtomicWrite == PathContent.k \in {"nofile", "json"}

----------------------------------------------------------------------------
(* clean_numeric: text -> number.  Numbers are integers counting units of  *)
(* 10^-FracDigits, so that the decimals of a cell are exact.               *)

FracDigits == 4
PrepCellLen == 2

RECURSIVE Pow10(_)
Pow10(n) == IF n = 0 THEN 1 ELSE 10 * Pow10(n - 1)

Unit == Pow10(FracDigits)

Digits == {"0", "1", "2", "3", "4", "5", "6", "7", "8", "9"}

DigitVal(c) ==
    CASE c = "0" -> 0 [] c = "1" -> 1 [] c = "2" -> 2 [] c = "3" -> 3 [] c = "4" -> 4
      [] c = "5" -> 5 [] c = "6" -> 6 [] c = "7" -> 7 [] c = "8" -> 8 [] c = "9" -> 9

RECURSIVE DigitsVal(_)
DigitsVal(s) ==
    IF s = <<>> THEN 0
    ELSE 10 * DigitsVal(SubSeq(s, 1, Len(s) - 1)) + DigitVal(s[Len(s)])

\* a number, or NaN
Num(v) == [nan |-> FALSE, v |-> v]
NaN == [nan |-> TRUE, v |-> 0]

\* a cell of the source: a text, or a missing value
TextCell(s) == [t |-> "str", s |-> s]
MissingCell == [t |-> "nan", s |-> <<>>]

\* series.astype(str)
AsStr(cell) == IF cell.t = "nan" THEN <<"n", "a", "n">> ELSE cell.s

RECURSIVE KeepChars(_, _)
KeepChars(s, keep) ==
    IF s = <<>> THEN <<>>
    ELSE IF Head(s) \in keep THEN <<Head(s)>> \o KeepChars(Tail(s), keep)
    ELSE KeepChars(Tail(s), keep)

\* str.replace(r"[^0-9\-,\.]", "", regex=True)
StripOther(s) == KeepChars(s, Digits \cup {"-", ",", "."})

\* str.replace(",", ".", regex=False)
CommaToDot(s) == [i \in DOMAIN s |-> IF s[i] = "," THEN "." ELSE s[i]]

\* (?<=\d)\.(?=\d{3}(?:\.|$)) matches at position i
ThousandsDot(s, i) ==
    /\ s[i] = "."
    /\ i > 1 /\ s[i - 1] \in Digits
    /\ i + 3 <= Len(s)
    /\ \A j \in (i + 1)..(i + 3) : s[j] \in Digits
    /\ (i + 3 = Len(s) \/ s[i + 4] = ".")

RECURSIVE DropThousandsFrom(_, _)
DropThousandsFrom(s, i) ==
    IF i > Len(s) THEN <<>>
    ELSE IF ThousandsDot(s, i) THEN DropThousandsFrom(s, i + 1)
    ELSE <<s[i]>> \o DropThousandsFrom(s, i + 1)

\* str.replace(r"(?<=\d)\.(?=\d{3}(?:\.|$))", "", regex=True)
DropThousands(s) == DropThousandsFrom(s, 1)

RECURSIVE DropLeadingZeros(_)
DropLeadingZeros(ds) ==
    IF ds # <<>> /\ Head(ds) = "0" THEN DropLeadingZeros(Tail(ds)) ELSE ds

RECURSIVE DropTrailingZeros(_)
DropTrailingZeros(ds) ==
    IF ds # <<>> /\ ds[Len(ds)] = "0" THEN DropTrailingZeros(SubSeq(ds, 1, Len(ds) - 1))
    ELSE ds

\* a number by its decimal digits: the digits before the point without
\* leading zeros, the digits after it without trailing zeros; or NaN
Dec(neg, ip, fp) == [nan |-> FALSE, neg |-> neg, ip |-> ip, fp |-> fp]
DecNaN == [nan |-> TRUE, neg |-> FALSE, ip |-> <<>>, fp |-> <<>>]
DecZero == Dec(FALSE, <<>>, <<>>)

\* pd.to_numeric(s, errors="coerce") of one text: an optional leading minus,
\* digits with at most one point and at least one digit; anything else is NaN
ToDecimal(s) ==
    LET neg == s # <<>> /\ s[1] = "-"
        body == IF neg THEN Tail(s) ELSE s
        dots == {i \in DOMAIN body : body[i] = "."}
        bad == \/ Cardinality(dots) > 1
               \/ \E i \in DOMAIN body : body[i] \notin Digits \cup {"."}
               \/ ~ \E i \in DOMAIN body : body[i] \in Digits
    IN IF bad THEN DecNaN
       ELSE LET p == IF dots = {} THEN Len(body) + 1 ELSE CHOOSE i \in dots : TRUE
                ip == DropLeadingZeros(SubSeq(body, 1, p - 1))
                fp == DropTrailingZeros(SubSeq(body, p + 1, Len(body)))
            IN Dec(neg /\ (ip # <<>> \/ fp # <<>>), ip, fp)

\* the number in units of 10^-FracDigits
DecimalToNum(d) ==
    IF d.nan THEN NaN
    ELSE LET mag == DigitsVal(d.ip) * Unit + DigitsVal(d.fp) * Pow10(FracDigits - Len(d.fp))
         IN Num(IF d.neg THEN 0 - mag ELSE mag)

\* pd.to_numeric(s, errors="coerce"), for arithmetic
ToNumeric(s) == DecimalToNum(ToDecimal(s))

\* .fillna(0.0)
FillNa0(x) == IF x.nan THEN Num(0) ELSE x

\* the text to_numeric is given
CleanText(cell) == DropThousands(CommaToDot(StripOther(AsStr(cell))))

\* clean_numeric without the final fillna
CleanNumericNoFill(cell) == ToNumeric(CleanText(cell))

\* clean_numeric, for one cell of the series
CleanNumeric(cell) == FillNa0(ToNumeric(CleanText(cell)))

----------------------------------------------------------------------------
(* SpecPrepare: _prepare_df on one source row, the three months in turn *)

Months == <<"julho", "agosto", "setembro">>

\* the characters of the cells considered
PrepChars == {"1", "-", ",", "x"}

RECURSIVE TextsUpTo(_)
TextsUpTo(n) ==
    IF n = 0 THEN {<<>>}
    ELSE LET shorter == TextsUpTo(n - 1)
         IN shorter \cup {Append(s, c) : s \in shorter, c \in PrepChars}

PrepCells == {TextCell(s) : s \in TextsUpTo(PrepCellLen)} \cup {MissingCell}

\* a + b of two columns: NaN when either is NaN
AddNum(a, b) == IF a.nan \/ b.nan THEN NaN ELSE Num(a.v + b.v)

\* a total that subtracts the last month
TotalVisualizacoesMinus(vals) == AddNum(AddNum(vals[1], vals[2]), Num(0 - vals[3].v))

\* total_visualizacoes: the sum of the three monthly columns
TotalVisualizacoes(vals) == AddNum(AddNum(vals[1], vals[2]), vals[3])

\* DataFrame.mean(axis=1): the mean of the values that are not NaN, as the
\* fraction num/den; NaN when all are NaN
MediaTrimestral(vals) ==
    LET ok == {i \in DOMAIN vals : ~vals[i].nan}
        RECURSIVE Sum(_)
        Sum(S) == IF S = {} THEN 0
                  ELSE LET i == CHOOSE x \in S : TRUE IN vals[i].v + Sum(S \ {i})
    IN [nan |-> ok = {}, num |-> Sum(ok), den |-> Cardinality(ok)]

\* the value of a month's column: clean_numeric of the resolved column, or
\* 0.0 when _resolve_views found no column
MonthValue(found, cell) == IF found THEN CleanNumeric(cell) ELSE Num(0)

InitPrepare ==
    /\ InitOverlay({NoFileC}, {<<NameA, NameB>>})
    /\ prep = [pc |-> "months", found |-> <<>>, cells |-> <<>>, vals |-> <<>>,
               total |-> Num(0), media |-> [nan |-> TRUE, num |-> 0, den |-> 0]]

\* one turn of the loop over the months: the column is found (and holds
\* cell in this row) or is not found
PrepMonth(found, cell) ==
    /\ prep.pc = "months"
    /\ Len(prep.vals) < Len(Months)
    /\ ~found => cell = MissingCell
    /\ prep' = [prep EXCEPT !.found = Append(@, found), !.cells = Append(@, cell),
                            !.vals = Append(@, MonthValue(found, cell))]
    /\ UNCHANGED <<inodes, dirPath, dirTmp, memLock, dfBase, store, table, fsites,
                   nReload, pend, th, last, lastEdit, nFaults, written, nOps>>

\* after the loop: total_visualizacoes and media_trimestral
PrepDerive ==
    /\ prep.pc = "months"
    /\ Len(prep.vals) = Len(Months)
    /\ prep' = [prep EXCEPT !.pc = "done",
                            !.total = TotalVisualizacoes(prep.vals),
                            !.media = MediaTrimestral(prep.vals)]
    /\ UNCHANGED <<inodes, dirPath, dirTmp, memLock, dfBase, store, table, fsites,
                   nReload, pend, th, last, lastEdit, nFaults, written, nOps>>

NextPrepare ==
    \/ \E found \in BOOLEAN, cell \in PrepCells : PrepMonth(found, cell)
    \/ PrepDerive

SpecPrepare == InitPrepare /\ [][NextPrepare]_vars

\* the cell of month m counts as 0: its column was not found, or the cell is
\* missing or its cleaned text is no number
CountsAsZero(m) ==
    \/ ~prep.found[m]
    \/ prep.cells[m] = MissingCell
    \/ ToNumeric(CleanText(prep.cells[m])).nan

\* C9: in every record _prepare_df produces, total_visualizacoes is the sum
\* of the three monthly fields and media_trimestral is that total divided by
\* 3; a month that was not found, is missing or unparseable is a 0 that
\* counts in the average.
C9_TotalAndAverage ==
    prep.pc = "done" =>
        /\ \A m \in 1..3 : ~prep.vals[m].nan /\ (CountsAsZero(m) => prep.vals[m].v = 0)
        /\ ~prep.total.nan
        /\ prep.total.v = prep.vals[1].v + prep.vals[2].v + prep.vals[3].v
        /\ ~prep.media.nan /\ prep.media.den = 3 /\ prep.media.num = prep.total.v

C9_Witness ==
    /\ prep.pc = "done"
    /\ ~prep.found[1]
    /\ prep.found[2] /\ prep.cells[2] = TextCell(<<"x">>)
    /\ prep.found[3] /\ prep.vals[3].v > 0
    /\ prep.media.num = prep.vals[3].v /\ prep.media.den = 3

HasMinus(cell) == \E i \in DOMAIN cell.s : cell.s[i] = "-"

\* C10 as claimed: total_visualizacoes >= 0 in every record, whatever the
\* source cells hold.
C10_TotalNonNegative == prep.pc = "done" => prep.total.v >= 0

\* C10 amended: total_visualizacoes >= 0 in every record whose three
\* source cells hold no minus sign.
C10_TotalNonNegativeWithoutMinus ==
    (prep.pc = "done" /\ \A m \in 1..3 : ~HasMinus(prep.cells[m])) =>
        ~prep.total.nan /\ prep.total.v >= 0

C10_Witness ==
    /\ prep.pc = "done"
    /\ \A m \in 1..3 : prep.found[m] /\ ~HasMinus(prep.cells[m])
    /\ prep.cells[1] = TextCell(<<"1", ",">>)
    /\ prep.cells[3] = TextCell(<<"x", "1">>)
    /\ prep.total.v > 0

----------------------------------------------------------------------------
(* _normalize: header text -> column name.  A character is a string; the   *)
(* characters outside ASCII are named by their code point.                 *)

MaxHeaderLen == 5


\* the characters of the headers considered
HeaderChars == {" ", "\n", "\t", "a", "A", "U+00E9", "U+20AC"}

\* the overlay does not take part in the preparation of the data
OverlayUnchanged ==
    UNCHANGED <<inodes, dirPath, dirTmp, memLock, dfBase, store, table, fsites,
                nReload, pend, th, last, lastEdit, nFaults, written, nOps>>

\* str.replace(old, new) for a one-character new: the occurrences of old,
\* left to right, not overlapping
RECURSIVE ReplaceFrom(_, _, _, _)
ReplaceFrom(s, i, old, new) ==
    IF i > Len(s) THEN <<>>
    ELSE IF i + Len(old) - 1 <= Len(s) /\ SubSeq(s, i, i + Len(old) - 1) = old
         THEN new \o ReplaceFrom(s, i + Len(old), old, new)
         ELSE <<s[i]>> \o ReplaceFrom(s, i + 1, old, new)

Replace(s, old, new) == ReplaceFrom(s, 1, old, new)

\* unicodedata.normalize("NFKD", s), one character
Nfkd(c) == IF c = "U+00E9" THEN <<"e", "U+0301">> ELSE <<c>>

\* the ASCII characters
AsciiChars == {" ", "\n", "\t", "a", "A", "e", "_"}

\* unicodedata.normalize("NFKD", s).encode("ASCII", "ignore").decode("utf-8")
RECURSIVE AsciiFold(_)
AsciiFold(s) ==
    IF s = <<>> THEN <<>>
    ELSE KeepChars(Nfkd(Head(s)), AsciiChars) \o AsciiFold(Tail(s))

\* str.lower()
Lower(s) == [i \in DOMAIN s |-> IF s[i] = "A" THEN "a" ELSE s[i]]

\* for ch in ["  ", "   "]: s = s.replace(ch, " ")
CollapseSpaces(s) == Replace(Replace(s, <<" ", " ">>, <<" ">>), <<" ", " ", " ">>, <<" ">>)

\* _normalize
Normalize(colname) ==
    Replace(CollapseSpaces(Lower(AsciiFold(Replace(Strip(colname), <<"\n">>, <<" ">>)))),
            <<" ">>, <<"_">>)

----------------------------------------------------------------------------
(* SpecNormalize: a header is typed, then normalized once and once more *)

InitNormalize ==
    /\ InitOverlay({NoFileC}, {<<NameA, NameB>>})
    /\ prep = [pc |-> "header", h |-> <<>>, out1 |-> <<>>, out2 |-> <<>>]

\* one more character of the header of the sheet
TypeHeaderChar(c) ==
    /\ prep.pc = "header"
    /\ Len(prep.h) < MaxHeaderLen
    /\ prep' = [prep EXCEPT !.h = Append(@, c)]
    /\ OverlayUnchanged

\* _prepare_df: df.columns = [_normalize(c) for c in df.columns]
NormalizeHeader ==
    /\ prep.pc = "header"
    /\ prep' = [prep EXCEPT !.pc = "once", !.out1 = Normalize(prep.h)]
    /\ OverlayUnchanged

\* the normalized name is normalized again (a prepared dataset is prepared
\* again)
NormalizeAgain ==
    /\ prep.pc = "once"
    /\ prep' = [prep EXCEPT !.pc = "twice", !.out2 = Normalize(prep.out1)]
    /\ OverlayUnchanged

NextNormalize ==
    \/ \E c \in HeaderChars : TypeHeaderChar(c)
    \/ NormalizeHeader
    \/ NormalizeAgain

SpecNormalize == InitNormalize /\ [][NextNormalize]_vars

\* C11: _normalize(_normalize(h)) = _normalize(h) for every header h.
C11_NormalizeIdempotent == prep.pc = "twice" => prep.out2 = prep.out1

\* space or newline
IsBlank(c) == c \in {" ", "\n"}

\* the header holds only ASCII letters, spaces and newlines
PlainHeader(h) == \A i \in DOMAIN h : h[i] \in {"a", "A", " ", "\n"}

\* the runs of spaces and newlines inside s
BlankRuns(s) ==
    Cardinality({i \in DOMAIN s : IsBlank(s[i]) /\ (i = 1 \/ ~IsBlank(s[i - 1]))})

Separators(s) == Cardinality({i \in DOMAIN s : s[i] = "_"})

\* C12: in the output of _normalize every run of spaces and newlines inside
\* the header is exactly one "_" (never two adjacent ones), and leading and
\* trailing whitespace gives none.  Stated for headers of ASCII letters,
\* spaces and newlines.
C12_WhitespaceCollapsed ==
    (prep.pc = "once" /\ PlainHeader(prep.h)) =>
        /\ Separators(prep.out1) = BlankRuns(Strip(prep.h))
        /\ \A i \in 1..(Len(prep.out1) - 1) : ~(prep.out1[i] = "_" /\ prep.out1[i + 1] = "_")

----------------------------------------------------------------------------
(* SpecNumeric: clean_numeric applied to one cell *)

SepCellLen == 9
MaxCellLen == 4

\* the characters of the cells: a digit, the separators, a minus sign, a
\* character that is no part of a number
NumChars == {"1", ",", ".", "-", "x"}
SepChars == {"1", ",", "."}

\* cells of a numeric column, each with the text of its value, str(value):
\* the numbers 1.5, 1.111 and 1111.0
FloatCells ==
    {[t |-> "float", s |-> s] :
        s \in {<<"1", ".", "5">>, <<"1", ".", "1", "1", "1">>, <<"1", "1", "1", "1", ".", "0">>}}

\* .fillna(0.0), on the decimal digits
FillNaDec(d) == IF d.nan THEN DecZero ELSE d

\* clean_numeric, for one cell, as decimal digits
CleanDecimal(cell) == FillNaDec(ToDecimal(CleanText(cell)))

InitNumeric ==
    /\ InitOverlay({NoFileC}, {<<NameA, NameB>>})
    /\ prep = [pc |-> "cell", cell |-> TextCell(<<>>), stripped |-> <<>>,
               text |-> <<>>, out |-> DecNaN]

\* one more character of the cell: texts of digits and separators up to
\* SepCellLen characters, any text up to MaxCellLen characters
TypeCellChar(c) ==
    /\ prep.pc = "cell" /\ prep.cell.t = "str"
    /\ \/ Len(prep.cell.s) < MaxCellLen
       \/ /\ Len(prep.cell.s) < SepCellLen
          /\ c \in SepChars
          /\ \A i \in DOMAIN prep.cell.s : prep.cell.s[i] \in SepChars
    /\ prep' = [prep EXCEPT !.cell = TextCell(Append(prep.cell.s, c))]
    /\ OverlayUnchanged

\* the cell is empty in the sheet (NaN), or the column is numeric
OtherCell(cell) ==
    /\ prep.pc = "cell" /\ prep.cell = TextCell(<<>>)
    /\ prep' = [prep EXCEPT !.cell = cell]
    /\ OverlayUnchanged

\* clean_numeric on the cell
Clean ==
    /\ prep.pc = "cell"
    /\ prep' = [prep EXCEPT !.pc = "clean",
                            !.stripped = StripOther(AsStr(prep.cell)),
                            !.text = CleanText(prep.cell),
                            !.out = CleanDecimal(prep.cell)]
    /\ OverlayUnchanged

NextNumeric ==
    \/ \E c \in NumChars : TypeCellChar(c)
    \/ \E cell \in {MissingCell} \cup FloatCells : OtherCell(cell)
    \/ Clean

SpecNumeric == InitNumeric /\ [][NextNumeric]_vars

AllDigits(s) == \A i \in DOMAIN s : s[i] \in Digits

Positions(s, c) == {i \in DOMAIN s : s[i] = c}

RECURSIVE Without(_, _)
Without(s, c) ==
    IF s = <<>> THEN <<>>
    ELSE IF Head(s) = c THEN Without(Tail(s), c) ELSE <<Head(s)>> \o Without(Tail(s), c)

\* digits in groups of three separated by periods, a comma, digits:
\* d.ddd,d  dd.ddd.ddd,dd  ...
GroupedCommaDecimal(s) ==
    /\ Cardinality(Positions(s, ",")) = 1
    /\ Positions(s, ".") # {}
    /\ s[1] \in Digits /\ s[Len(s)] \in Digits
    /\ \A i \in DOMAIN s : s[i] \in Digits \cup {",", "."}
    /\ \A i \in Positions(s, ".") :
          /\ i + 4 <= Len(s)
          /\ AllDigits(SubSeq(s, i + 1, i + 3))
          /\ s[i + 4] \in {".", ","}
    /\ \A i \in Positions(s, ",") : AllDigits(SubSeq(s, i + 1, Len(s)))

\* the number the text stands for when every period is a thousands
\* separator and the comma is the decimal separator
CommaDecimalValue(s) == ToDecimal(CommaToDot(Without(s, ".")))

\* C13: a numeric text with both a comma and a period is read with every
\* period as a thousands separator and the comma as the decimal separator
\* ("1.234,56" is 1234.56).  Stated for texts whose periods separate groups
\* of three digits.
C13_CommaDecimalWithThousands ==
    (prep.pc = "clean" /\ prep.cell.t = "str" /\ GroupedCommaDecimal(prep.cell.s)) =>
        prep.out = CommaDecimalValue(prep.cell.s)

\* digits, a comma, digits
CommaOnly(s) ==
    /\ Cardinality(Positions(s, ",")) = 1
    /\ s[1] \in Digits /\ s[Len(s)] \in Digits
    /\ \A i \in DOMAIN s : s[i] \in Digits \cup {","}

\* C14: a numeric text with a comma and no period is read with the comma as
\* the decimal separator, however many digits follow it.
C14_CommaIsDecimal ==
    (prep.pc = "clean" /\ prep.cell.t = "str" /\ CommaOnly(prep.cell.s)) =>
        prep.out = ToDecimal(CommaToDot(prep.cell.s))

\* C15: clean_numeric returns a number for every cell, 0.0 when the cleaned
\* text is no number, and the character-stripping step keeps a minus sign
\* only where it leads the cell.
C15_TotalAndLeadingMinusOnly ==
    prep.pc = "clean" =>
        /\ ~prep.out.nan
        /\ ToDecimal(prep.text).nan => prep.out = DecZero
        /\ \A i \in Positions(prep.stripped, "-") :
              i = 1 /\ AsStr(prep.cell)[1] = "-"

----------------------------------------------------------------------------
(* _resolve_views: the column that holds the views of a month.  Column     *)
(* names are sequences of characters.                                      *)

MaxCols == 3


\* base_aliases, in the order of the list
BaseAliases ==
    <<<<"v", "i", "s", "u", "a", "l", "i", "z", "a", "c", "o", "e", "s">>,
      <<"v", "i", "z", "u", "a", "l", "i", "z", "a", "c", "o", "e", "s">>,
      <<"v", "i", "e", "w", "s">>, <<"p", "a", "g", "e", "v", "i", "e", "w", "s">>,
      <<"p", "a", "g", "e", "_", "v", "i", "e", "w", "s">>,
      <<"p", "a", "g", "e", "v", "i", "e", "w">>>>

\* the name of a month, as characters
MonthChars(mes) ==
    CASE mes = "julho" -> <<"j", "u", "l", "h", "o">>
      [] mes = "agosto" -> <<"a", "g", "o", "s", "t", "o">>
      [] mes = "setembro" -> <<"s", "e", "t", "e", "m", "b", "r", "o">>

\* the names of columns, as characters
Col ==
    [views_julho |-> <<"v", "i", "e", "w", "s", "_", "j", "u", "l", "h", "o">>,
     julho_views |-> <<"j", "u", "l", "h", "o", "_", "v", "i", "e", "w", "s">>,
     total_views_julho |-> <<"t", "o", "t", "a", "l", "_", "v", "i", "e", "w", "s", "_", "j", "u", "l", "h", "o">>,
     views_jul |-> <<"v", "i", "e", "w", "s", "_", "j", "u", "l">>,
     pageviews_set |-> <<"p", "a", "g", "e", "v", "i", "e", "w", "s", "_", "s", "e", "t">>,
     views_setembro |-> <<"v", "i", "e", "w", "s", "_", "s", "e", "t", "e", "m", "b", "r", "o">>,
     nome |-> <<"n", "o", "m", "e">>,
     julho |-> <<"j", "u", "l", "h", "o">>,
     visualizacoes_agosto |-> <<"v", "i", "s", "u", "a", "l", "i", "z", "a", "c", "o", "e", "s", "_", "a", "g", "o", "s", "t", "o">>,
     cidade |-> <<"c", "i", "d", "a", "d", "e">>,
     categoria |-> <<"c", "a", "t", "e", "g", "o", "r", "i", "a">>,
     status |-> <<"s", "t", "a", "t", "u", "s">>,
     motivo |-> <<"m", "o", "t", "i", "v", "o">>,
     motivo_da_reprovacao |-> <<"m", "o", "t", "i", "v", "o", "_", "d", "a", "_", "r", "e", "p", "r", "o", "v", "a", "c", "a", "o">>,
     motivo_de_reprovacao |-> <<"m", "o", "t", "i", "v", "o", "_", "d", "e", "_", "r", "e", "p", "r", "o", "v", "a", "c", "a", "o">>,
     motivo_reprovacao |-> <<"m", "o", "t", "i", "v", "o", "_", "r", "e", "p", "r", "o", "v", "a", "c", "a", "o">>,
     motivo_reprova |-> <<"m", "o", "t", "i", "v", "o", "_", "r", "e", "p", "r", "o", "v", "a">>,
     motivo_reprov |-> <<"m", "o", "t", "i", "v", "o", "_", "r", "e", "p", "r", "o", "v">>,
     obs_motivo_reprovado |-> <<"o", "b", "s", "_", "m", "o", "t", "i", "v", "o", "_", "r", "e", "p", "r", "o", "v", "a", "d", "o">>,
     nome_fantasia |-> <<"n", "o", "m", "e", "_", "f", "a", "n", "t", "a", "s", "i", "a">>,
     nome_do_veiculo |-> <<"n", "o", "m", "e", "_", "d", "o", "_", "v", "e", "i", "c", "u", "l", "o">>,
     visualizacoes_julho |-> <<"v", "i", "s", "u", "a", "l", "i", "z", "a", "c", "o", "e", "s", "_", "j", "u", "l", "h", "o">>,
     visualizacoes_setembro |-> <<"v", "i", "s", "u", "a", "l", "i", "z", "a", "c", "o", "e", "s", "_", "s", "e", "t", "e", "m", "b", "r", "o">>,
     total_visualizacoes |-> <<"t", "o", "t", "a", "l", "_", "v", "i", "s", "u", "a", "l", "i", "z", "a", "c", "o", "e", "s">>,
     media_trimestral |-> <<"m", "e", "d", "i", "a", "_", "t", "r", "i", "m", "e", "s", "t", "r", "a", "l">>,
     url |-> <<"u", "r", "l">>]

\* abrevs_map.get(mes, [])
Abrevs(mes) ==
    IF mes = MonthChars("julho") THEN <<<<"j", "u", "l">>>>
    ELSE IF mes = MonthChars("agosto") THEN <<<<"a", "g", "o">>>>
    ELSE IF mes = MonthChars("setembro") THEN <<<<"s", "e", "t">>, <<"s", "e", "p">>>>
    ELSE <<>>

\* no column: None
NoColumn == <<>>

\* tok in c
Contains(c, tok) ==
    \E i \in 1..(Len(c) - Len(tok) + 1) : SubSeq(c, i, i + Len(tok) - 1) = tok

\* the aliases of a base alias: a_mes, a_de_mes, a__mes, mes_a
AliasesOf(a, mes) ==
    <<a \o <<"_">> \o mes, a \o <<"_", "d", "e", "_">> \o mes,
      a \o <<"_", "_">> \o mes, mes \o <<"_">> \o a>>

RECURSIVE AliasesFrom(_, _)
AliasesFrom(i, mes) ==
    IF i > Len(BaseAliases) THEN <<>>
    ELSE AliasesOf(BaseAliases[i], mes) \o AliasesFrom(i + 1, mes)

\* aliases, in the order _resolve_views builds the list
ViewsAliases(mes) ==
    <<BaseAliases[1] \o <<"_">> \o mes, BaseAliases[2] \o <<"_">> \o mes,
      <<"t", "o", "t", "a", "l", "_", "d", "e", "_">> \o BaseAliases[1] \o <<"_">> \o mes,
      <<"t", "o", "t", "a", "l", "_", "d", "e", "_">> \o BaseAliases[2] \o <<"_">> \o mes>> \o AliasesFrom(1, mes)

\* _find_first: the first candidate that is a column
RECURSIVE FindFirst(_, _)
FindFirst(columns, candidates) ==
    IF candidates = <<>> THEN NoColumn
    ELSE IF Head(candidates) \in Range(columns) THEN Head(candidates)
    ELSE FindFirst(columns, Tail(candidates))

\* _find_by_tokens: the first column that contains every token
RECURSIVE FindByTokens(_, _)
FindByTokens(columns, tokens) ==
    IF columns = <<>> THEN NoColumn
    ELSE IF \A k \in DOMAIN tokens : Contains(Head(columns), tokens[k]) THEN Head(columns)
    ELSE FindByTokens(Tail(columns), tokens)

\* for a in base_aliases: hit = _find_by_tokens(df, [a, tok]); if hit: return hit
RECURSIVE FindByAliasAnd(_, _, _)
FindByAliasAnd(columns, i, tok) ==
    IF i > Len(BaseAliases) THEN NoColumn
    ELSE LET hit == FindByTokens(columns, <<BaseAliases[i], tok>>)
         IN IF hit # NoColumn THEN hit ELSE FindByAliasAnd(columns, i + 1, tok)

\* for ab in abrevs_map.get(mes, []): for a in base_aliases: ...
RECURSIVE FindByAbrevs(_, _)
FindByAbrevs(columns, abrevs) ==
    IF abrevs = <<>> THEN NoColumn
    ELSE LET hit == FindByAliasAnd(columns, 1, Head(abrevs))
         IN IF hit # NoColumn THEN hit ELSE FindByAbrevs(columns, Tail(abrevs))

\* a resolver that searches by tokens before it looks for the exact aliases
ResolveViewsTokensFirst(columns, mes) ==
    LET byName == FindByAliasAnd(columns, 1, mes)
        exact == FindFirst(columns, ViewsAliases(mes))
    IN IF byName # NoColumn THEN byName
       ELSE IF exact # NoColumn THEN exact
       ELSE FindByAbrevs(columns, Abrevs(mes))

\* _resolve_views
ResolveViews(columns, mes) ==
    LET exact == FindFirst(columns, ViewsAliases(mes))
        byName == FindByAliasAnd(columns, 1, mes)
    IN IF exact # NoColumn THEN exact
       ELSE IF byName # NoColumn THEN byName
       ELSE FindByAbrevs(columns, Abrevs(mes))

----------------------------------------------------------------------------
(* SpecResolve: the normalized columns of a sheet, then _resolve_views *)


\* the normalized column names a sheet may have
ColumnPool ==
    {Col.views_julho, Col.julho_views, Col.total_views_julho, Col.views_jul, Col.pageviews_set,
     Col.views_setembro, Col.nome, Col.julho, Col.visualizacoes_agosto}

InitResolve ==
    /\ InitOverlay({NoFileC}, {<<NameA, NameB>>})
    /\ prep = [pc |-> "columns", columns |-> <<>>, mes |-> <<>>, hit |-> NoColumn]

\* the sheet has one more column
AddColumn(c) ==
    /\ prep.pc = "columns"
    /\ Len(prep.columns) < MaxCols
    /\ c \notin Range(prep.columns)
    /\ prep' = [prep EXCEPT !.columns = Append(@, c)]
    /\ OverlayUnchanged

\* _prepare_df: col = _resolve_views(df, mes)
Resolve(mes) ==
    /\ prep.pc = "columns"
    /\ prep' = [prep EXCEPT !.pc = "resolved", !.mes = mes,
                            !.hit = ResolveViews(prep.columns, mes)]
    /\ OverlayUnchanged

NextResolve ==
    \/ \E c \in ColumnPool : AddColumn(c)
    \/ \E mes \in Range(Months) : Resolve(MonthChars(mes))

SpecResolve == InitResolve /\ [][NextResolve]_vars

\* the columns that are one of the month's aliases
ExactColumns(columns, mes) == Range(columns) \cap Range(ViewsAliases(mes))

\* the columns that contain a views synonym and the token
SynonymColumns(columns, tok) ==
    {c \in Range(columns) : Contains(c, tok) /\ \E i \in DOMAIN BaseAliases : Contains(c, BaseAliases[i])}

AbrevColumns(columns, mes) ==
    UNION {SynonymColumns(columns, Abrevs(mes)[k]) : k \in DOMAIN Abrevs(mes)}

\* C16: _resolve_views returns a column that is one of the month's aliases
\* if there is one, otherwise a column with a views synonym and the month's
\* name if there is one, otherwise a column with a views synonym and an
\* abbreviation of the month if there is one, otherwise None, whatever the
\* order of the columns.
C16_ResolverOrder ==
    prep.pc = "resolved" =>
        IF ExactColumns(prep.columns, prep.mes) # {}
        THEN prep.hit \in ExactColumns(prep.columns, prep.mes)
        ELSE IF SynonymColumns(prep.columns, prep.mes) # {}
        THEN prep.hit \in SynonymColumns(prep.columns, prep.mes)
        ELSE IF AbrevColumns(prep.columns, prep.mes) # {}
        THEN prep.hit \in AbrevColumns(prep.columns, prep.mes)
        ELSE prep.hit = NoColumn

C16_Witness ==
    /\ prep.pc = "resolved" /\ prep.mes = MonthChars("julho")
    /\ prep.columns = <<Col.views_jul, Col.total_views_julho, Col.julho_views>>
    /\ prep.hit = Col.julho_views

----------------------------------------------------------------------------
(* _prepare_df: the fields of one row, from the normalized columns of the   *)
(* sheet.  Every column of the row holds the same cell.                     *)

MaxFieldCols == 3


\* "Não informado"
NaoInformado == <<"N", "U+00E3", "o", " ", "i", "n", "f", "o", "r", "m", "a", "d", "o">>


\* str.upper(), one character
UpperChar(c) ==
    LET lower == <<"a", "b", "c", "d", "e", "f", "g", "h", "i", "j", "k", "l", "m", "n", "o", "p", "q", "r", "s", "t", "u", "v", "w", "x", "y", "z",
                 "U+00E3">>
        upper == <<"A", "B", "C", "D", "E", "F", "G", "H", "I", "J", "K", "L", "M", "N", "O", "P", "Q", "R", "S", "T", "U", "V", "W", "X", "Y", "Z",
                 "U+00C3">>
    IN IF \E k \in DOMAIN lower : lower[k] = c
       THEN upper[CHOOSE k \in DOMAIN lower : lower[k] = c]
       ELSE c

\* str.upper()
Upper(s) == [i \in DOMAIN s |-> UpperChar(s[i])]

\* motivo_aliases, in the order of the list
MotivoAliases ==
    <<Col.motivo, Col.motivo_da_reprovacao, Col.motivo_de_reprovacao, Col.motivo_reprovacao, Col.motivo_reprova,
      Col.motivo_reprov>>

\* the column occurs more than once among the normalized names, so that
\* df[c] is a DataFrame, not a Series
Duplicated(columns, c) == Cardinality({i \in DOMAIN columns : columns[i] = c}) > 1

\* a filter field whose column was not found is left empty
FilterFieldEmpty(columns, c, cell) ==
    IF c \in Range(columns) THEN Strip(AsStr(cell)) ELSE <<>>

\* for c in ["cidade", "categoria", "status"]: the stripped text of the
\* column, or "Não informado"
FilterField(columns, c, cell) ==
    IF c \in Range(columns) THEN Strip(AsStr(cell)) ELSE NaoInformado

\* df["status"] = df["status"].astype(str).str.upper()
StatusField(columns, cell) == Upper(FilterField(columns, Col.status, cell))

\* mot = _find_first(df, motivo_aliases) or _find_by_tokens(df, ["motivo", "reprov"])
MotivoColumn(columns) ==
    LET first == FindFirst(columns, MotivoAliases)
    IN IF first # NoColumn THEN first ELSE FindByTokens(columns, <<Col.motivo, <<"r", "e", "p", "r", "o", "v">>>>)

\* .fillna("").astype(str), one cell
FillNaStr(cell) == IF cell.t = "nan" THEN <<>> ELSE cell.s

\* df["motivo"]
MotivoField(columns, cell) ==
    LET mot == MotivoColumn(columns)
    IN IF mot # NoColumn /\ mot # Col.motivo THEN Strip(AsStr(cell))
       ELSE IF Col.motivo \notin Range(columns) THEN <<>>
       ELSE Strip(FillNaStr(cell))

\* the columns _prepare_df reads for the fields of the row
ColumnsRead(columns) ==
    ({Col.cidade, Col.categoria, Col.status} \cap Range(columns))
        \cup ({MotivoColumn(columns)} \ {NoColumn})
        \cup ({Col.motivo} \cap Range(columns))
        \cup ({ResolveViews(columns, mes) : mes \in {MonthChars(m) : m \in Range(Months)}} \ {NoColumn})

\* _prepare_df raises: .str of a DataFrame
PrepareRaises(columns) == \E c \in ColumnsRead(columns) : Duplicated(columns, c)

\* the fields of the row
PrepareFields(columns, cell) ==
    [raised |-> PrepareRaises(columns),
     cidade |-> FilterField(columns, Col.cidade, cell),
     categoria |-> FilterField(columns, Col.categoria, cell),
     status |-> StatusField(columns, cell),
     motivo |-> MotivoField(columns, cell),
     views |-> [i \in DOMAIN Months |->
                   MonthValue(ResolveViews(columns, MonthChars(Months[i])) # NoColumn, cell)]]

----------------------------------------------------------------------------
(* SpecFields: the normalized columns of a sheet, then _prepare_df on a row *)

\* the normalized column names a sheet may have
FieldPool ==
    {Col.cidade, Col.categoria, Col.status, Col.motivo, Col.motivo_reprovacao, Col.obs_motivo_reprovado,
     Col.views_julho, Col.nome}

\* the cells of the row
FieldCells == {TextCell(<<" ", "a">>), TextCell(<<"1">>), MissingCell}

InitFields ==
    /\ InitOverlay({NoFileC}, {<<NameA, NameB>>})
    /\ prep = [pc |-> "columns", columns |-> <<>>, cell |-> MissingCell,
               f |-> PrepareFields(<<>>, MissingCell)]

\* the sheet has one more column; two headers may normalize to one name
AddFieldColumn(c) ==
    /\ prep.pc = "columns"
    /\ Len(prep.columns) < MaxFieldCols
    /\ prep' = [prep EXCEPT !.columns = Append(@, c)]
    /\ OverlayUnchanged

\* _prepare_df, for a row whose cells are cell
PrepareRow(cell) ==
    /\ prep.pc = "columns"
    /\ prep' = [prep EXCEPT !.pc = "prepared", !.cell = cell,
                            !.f = PrepareFields(prep.columns, cell)]
    /\ OverlayUnchanged

NextFields ==
    \/ \E c \in FieldPool : AddFieldColumn(c)
    \/ \E cell \in FieldCells : PrepareRow(cell)

SpecFields == InitFields /\ [][NextFields]_vars

\* what a miss leaves in the fields other than status
MissDefaults ==
    /\ Col.cidade \notin Range(prep.columns) => prep.f.cidade = NaoInformado
    /\ Col.categoria \notin Range(prep.columns) => prep.f.categoria = NaoInformado
    /\ MotivoColumn(prep.columns) = NoColumn => prep.f.motivo = <<>>
    /\ \A i \in DOMAIN Months :
          (\A c \in Range(prep.columns) : ~Contains(c, BaseAliases[3])) => prep.f.views[i] = Num(0)

\* _prepare_df raised, and every column it read occurs once
RaisedOnMiss ==
    prep.f.raised /\ \A c \in Range(prep.columns) : ~Duplicated(prep.columns, c)

\* C17 as claimed: a field whose column is not found is no failure and gets
\* its default: 0 for the views, "Não informado" for cidade, categoria and
\* status, "" for motivo.
C17_MissGivesDefault ==
    prep.pc = "prepared" =>
        /\ ~RaisedOnMiss
        /\ MissDefaults
        /\ Col.status \notin Range(prep.columns) => prep.f.status = NaoInformado

\* C17 amended: a field whose column is not found is no failure and gets its
\* default: 0 for the views, "Não informado" for cidade and categoria,
\* "NÃO INFORMADO" for status, "" for motivo.
C17_MissGivesDefaultUpperStatus ==
    prep.pc = "prepared" =>
        /\ ~RaisedOnMiss
        /\ MissDefaults
        /\ Col.status \notin Range(prep.columns) => prep.f.status = Upper(NaoInformado)

C17_Witness ==
    /\ prep.pc = "prepared"
    /\ prep.columns = <<Col.nome>>
    /\ ~prep.f.raised
    /\ prep.f.cidade = NaoInformado /\ prep.f.status = Upper(NaoInformado)
    /\ prep.f.motivo = <<>> /\ prep.f.views = <<Num(0), Num(0), Num(0)>>

----------------------------------------------------------------------------
(* load_data: the sources in turn.  A sheet is what a source delivers: its  *)
(* normalized column names and the names of its rows.                       *)

MaxLoads == 2


\* _empty_df_skeleton: cols
SkeletonColumns ==
    <<Col.nome_fantasia, Col.nome_do_veiculo, Col.cidade, Col.status, Col.motivo, Col.categoria, Col.visualizacoes_julho,
      Col.visualizacoes_agosto, Col.visualizacoes_setembro, Col.total_visualizacoes, Col.media_trimestral,
      Col.url>>

\* the read delivered nothing: _read_csv_resilient returned None, or
\* pd.read_excel raised
NoSheet == [none |-> TRUE, columns |-> <<>>, rows |-> <<>>]

Sheet(columns, rows) == [none |-> FALSE, columns |-> columns, rows |-> rows]

\* _empty_df_skeleton
EmptyDfSkeleton == Sheet(SkeletonColumns, <<>>)

\* what a read may deliver: nothing, a sheet with rows, a sheet without
\* rows, a sheet two headers of which normalize to "cidade"
Reads ==
    {NoSheet, Sheet(<<Col.nome, Col.cidade>>, <<NameA, NameB>>), Sheet(<<Col.nome, Col.cidade>>, <<>>),
     Sheet(<<Col.cidade, Col.cidade>>, <<NameA>>)}

\* the columns of the DataFrame _prepare_df returns
PreparedColumns(columns) == Range(columns) \cup Range(SkeletonColumns)

\* _prepare_df(sheet), as the result of load_data
Prepared(src, sheet) ==
    [src |-> src, raised |-> PrepareRaises(sheet.columns),
     rows |-> IF PrepareRaises(sheet.columns) THEN <<>> ELSE sheet.rows,
     cols |-> PreparedColumns(sheet.columns)]

NoResult == [src |-> "none", raised |-> FALSE, rows |-> <<>>, cols |-> {}]

\* the minimal validation of what a source delivered
Accepts(src, sheet) ==
    IF src = "excel" THEN ~sheet.none
    ELSE ~sheet.none /\ Len(sheet.rows) >= 0 /\ Len(sheet.columns) >= 1

\* a step whose _prepare_df is outside the try
LoadStepUncaught(src, sheet) ==
    IF Accepts(src, sheet)
    THEN [ret |-> TRUE, result |-> Prepared(src, sheet)]
    ELSE [ret |-> FALSE, result |-> NoResult]

\* one source of load_data: try: read, validate, return _prepare_df(...);
\* except: log and go on
LoadStep(src, sheet) ==
    IF Accepts(src, sheet) /\ ~PrepareRaises(sheet.columns)
    THEN [ret |-> TRUE, result |-> Prepared(src, sheet)]
    ELSE [ret |-> FALSE, result |-> NoResult]

\* an order that tries the local Excel before the built URL
SourceAfterExcelFirst(cfg, src) ==
    IF src = "start" THEN (IF cfg.force THEN "excel" ELSE IF cfg.csv THEN "csv" ELSE "excel")
    ELSE IF src = "csv" THEN "excel"
    ELSE IF src = "excel" THEN (IF cfg.force \/ ~cfg.built THEN "empty" ELSE "built")
    ELSE "empty"

\* the source load_data turns to after src has failed ("start": on entry)
SourceAfter(cfg, src) ==
    IF src = "start"
    THEN (IF cfg.force THEN "excel" ELSE IF cfg.csv THEN "csv"
          ELSE IF cfg.built THEN "built" ELSE "excel")
    ELSE IF src = "csv" THEN (IF cfg.built THEN "built" ELSE "excel")
    ELSE IF src = "built" THEN "excel"
    ELSE "empty"

\* FORCE_LOCAL_DATA, SHEETS_CSV_URL set, SHEETS_GSHEET_ID and SHEETS_GID set
Configs == [force : BOOLEAN, csv : BOOLEAN, built : BOOLEAN]

----------------------------------------------------------------------------
(* SpecLoad: DF_BASE is loaded; clicks on "Atualizar dados" make atualizar *)
(* call load_data                                                          *)

InitLoad ==
    /\ InitOverlay({NoFileC}, {<<NameA, NameB>>})
    /\ \E cfg \in Configs :
          prep = [pc |-> "idle", cfg |-> cfg, loads |-> 0, tried |-> <<>>,
                  result |-> NoResult]

\* atualizar with n_reload > 0: base = load_data()
BeginLoad ==
    /\ prep.pc \in {"idle", "done"}
    /\ prep.loads < MaxLoads
    /\ prep' = [prep EXCEPT !.pc = SourceAfter(prep.cfg, "start"), !.loads = @ + 1,
                            !.tried = <<>>, !.result = NoResult]
    /\ OverlayUnchanged

\* one of the sources of load_data delivers sheet
TrySource(src, sheet) ==
    /\ prep.pc = src
    /\ LET step == LoadStep(src, sheet)
       IN prep' = [prep EXCEPT !.pc = IF step.ret THEN "done" ELSE SourceAfter(prep.cfg, src),
                               !.tried = Append(@, [src |-> src, ok |-> step.ret, sheet |-> sheet]),
                               !.result = step.result]
    /\ OverlayUnchanged

\* return _prepare_df(_empty_df_skeleton())
ReturnEmpty ==
    /\ prep.pc = "empty"
    /\ prep' = [prep EXCEPT !.pc = "done", !.result = Prepared("empty", EmptyDfSkeleton)]
    /\ OverlayUnchanged

NextLoad ==
    \/ BeginLoad
    \/ \E sheet \in Reads : TrySource("csv", sheet)
    \/ \E sheet \in Reads : TrySource("built", sheet)
    \/ \E sheet \in Reads : TrySource("excel", sheet)
    \/ ReturnEmpty

SpecLoad == InitLoad /\ [][NextLoad]_vars

\* every source load_data tried has failed
AllTriedFailed == \A i \in DOMAIN prep.tried : ~prep.tried[i].ok

\* C18: a refresh whose sources all fail, while DF_BASE holds a loaded
\* snapshot, gives that snapshot, not an empty dataset.
C18_RefreshKeepsSnapshot ==
    (prep.pc = "done" /\ AllTriedFailed /\ dfBase # <<>>) =>
        ~prep.result.raised /\ prep.result.rows = dfBase

\* C19: load_data raises for no combination of failing sources, and when
\* every source fails its result has no rows and has every canonical column.
C19_LoadNeverRaises ==
    prep.pc = "done" =>
        /\ ~prep.result.raised
        /\ AllTriedFailed =>
              /\ prep.result.rows = <<>>
              /\ Range(SkeletonColumns) \subseteq prep.result.cols

C19_Witness ==
    /\ prep.pc = "done"
    /\ Len(prep.tried) = 3 /\ AllTriedFailed
    /\ prep.result.src = "empty" /\ prep.result.rows = <<>>

\* the place of a source in the order of load_data
SourceRank(src) == CASE src = "csv" -> 1 [] src = "built" -> 2 [] src = "excel" -> 3

\* the sources the configuration allows
Configured(cfg) ==
    IF cfg.force THEN {"excel"}
    ELSE {"excel"} \cup (IF cfg.csv THEN {"csv"} ELSE {}) \cup (IF cfg.built THEN {"built"} ELSE {})

TriedSources == {prep.tried[i].src : i \in DOMAIN prep.tried}

\* C20: with FORCE_LOCAL_DATA no remote source is tried and the result is
\* the local Excel or the empty dataset; otherwise the result comes from the
\* first source that succeeds in the order SHEETS_CSV_URL, built URL, local
\* Excel, empty dataset, and a source is tried only after every earlier one
\* has failed.
C20_SourcePriority ==
    /\ TriedSources \subseteq Configured(prep.cfg)
    /\ \A i, j \in DOMAIN prep.tried :
          i < j => ~prep.tried[i].ok /\ SourceRank(prep.tried[i].src) < SourceRank(prep.tried[j].src)
    /\ \A i \in DOMAIN prep.tried : \A src \in Configured(prep.cfg) :
          SourceRank(src) < SourceRank(prep.tried[i].src) => src \in TriedSources
    /\ prep.pc = "done" =>
          /\ prep.cfg.force => prep.result.src \in {"excel", "empty"}
          /\ IF AllTriedFailed
             THEN prep.result.src = "empty" /\ TriedSources = Configured(prep.cfg)
             ELSE prep.result.src = prep.tried[Len(prep.tried)].src

C20_Witness ==
    /\ prep.pc = "done" /\ ~prep.cfg.force
    /\ Len(prep.tried) = 3 /\ prep.tried[3].ok
    /\ prep.result.src = "excel" /\ prep.result.rows = <<NameA, NameB>>

\* C21: load_data takes a remotely read dataset as its result only if it
\* has at least one row and at least one column; a remote dataset without
\* rows is rejected and the next source is tried.
C21_RemoteNeedsRows ==
    /\ \A i \in DOMAIN prep.tried :
          (prep.tried[i].src \in {"csv", "built"} /\ prep.tried[i].ok) =>
              Len(prep.tried[i].sheet.rows) >= 1 /\ Len(prep.tried[i].sheet.columns) >= 1
    /\ (prep.pc = "done" /\ prep.result.src \in {"csv", "built"}) => Len(prep.result.rows) >= 1

\* C22: the motivo of a prepared row is the empty string when the source
\* cell is missing, whichever column ("motivo" or an alias or token match)
\* supplied it.
C22_MissingMotivoIsEmpty ==
    (prep.pc = "prepared" /\ ~prep.f.raised /\ prep.cell = MissingCell
        /\ MotivoColumn(prep.columns) # NoColumn) => prep.f.motivo = <<>>

\* a second run of persistir_valores for the same session and table, right
\* after a first run that returned its store
SecondRun ==
    /\ last.op = "persistir" /\ ~last.raised
    /\ last'.op = "persistir" /\ last'.s = last.s
    /\ table' = table

C24_NamesNeverDeleted ==
    [][(PathContent.k = "json" /\ PathContent'.k = "json") =>
          DOMAIN DiskDict \subseteq DOMAIN DiskDict']_vars

\* C25: whatever JSON object the file holds (entries that are not objects
\* included) and whatever the table holds, atualizar and persistir_valores
\* end without raising.
C25_OverlayNeverRaises ==
    last.op \in {"atualizar", "persistir"} => ~last.raised

----------------------------------------------------------------------------
(* The Flask variant (src/main_sheets.py): the global data and its routes *)

MaxRequests == 3

\* what a source delivers to one fetch: a failure, or its records
FetchFailed == [ok |-> FALSE, rows |-> <<>>]
Fetched(rows) == [ok |-> TRUE, rows |-> rows]

SheetsFetches == {FetchFailed, Fetched(<<>>), Fetched(<<NameA>>), Fetched(<<NameA, NameB>>)}
ExcelFetches == {FetchFailed, Fetched(<<NameB>>)}

\* load_excel_data(): the records of the workbook, [] when reading it raises
load_excel_data(x) == IF x.ok THEN x.rows ELSE <<>>

\* load_google_sheets_data(): the records of the sheet; when the request or
\* the parsing raises, the result of load_excel_data()
load_google_sheets_data(g, x) == IF g.ok THEN g.rows ELSE load_excel_data(x)

\* the call of load_google_sheets_data() as the routes see it: it returns
LoadCall(g, x) == [raised |-> FALSE, data |-> load_google_sheets_data(g, x)]

NoResponse == [route |-> "none", status |-> "none", count |-> 0, body |-> <<>>]

\* data after the module is loaded, before the first request
InitFlask ==
    /\ InitOverlay({NoFileC}, {<<NameA, NameB>>})
    /\ \E g \in SheetsFetches, x \in ExcelFetches :
          prep = [pc |-> "flask", data |-> load_google_sheets_data(g, x), n |-> 0,
                  g |-> g, x |-> x, before |-> <<>>, resp |-> NoResponse]

\* GET /api/refresh
refresh_data(g, x) ==
    /\ prep.n < MaxRequests
    /\ LET r == LoadCall(g, x)
       IN prep' = [prep EXCEPT
                      !.n = @ + 1, !.g = g, !.x = x, !.before = prep.data,
                      !.data = IF r.raised THEN @ ELSE r.data,
                      !.resp = IF r.raised
                               THEN [NoResponse EXCEPT !.route = "refresh", !.status = "error"]
                               ELSE [NoResponse EXCEPT !.route = "refresh", !.status = "success",
                                                       !.count = Len(r.data)]]
    /\ OverlayUnchanged

\* GET /api/data
get_data(g, x) ==
    /\ prep.n < MaxRequests
    /\ LET r == LoadCall(g, x)
       IN prep' = [prep EXCEPT
                      !.n = @ + 1, !.g = g, !.x = x, !.before = prep.data,
                      !.resp = [NoResponse EXCEPT !.route = "data",
                                   !.body = IF r.raised THEN prep.data ELSE r.data]]
    /\ OverlayUnchanged

NextFlask ==
    \/ \E g \in SheetsFetches, x \in ExcelFetches : refresh_data(g, x)
    \/ \E g \in SheetsFetches, x \in ExcelFetches : get_data(g, x)

SpecFlask == InitFlask /\ [][NextFlask]_vars

\* C26: a refresh whose Google Sheets fetch and Excel fallback both fail
\* answers with status 'error' and leaves the global data as it was.
C26_RefreshKeepsData ==
    (prep.resp.route = "refresh" /\ ~prep.g.ok /\ ~prep.x.ok) =>
        prep.resp.status = "error" /\ prep.data = prep.before

----------------------------------------------------------------------------
(* The write section under SpecThreads *)

\* the thread is between _MEM_LOCK.acquire() and the finally clause
InWriteSection(t) == th[t].pc \in {"w_open", "w_wr1", "w_wr2", "w_repl"}

\* C27: at most one thread is between the acquire and the release of
\* _MEM_LOCK, and a thread that has acquired the lock holds it until its own
\* finally clause releases it.
C27_WriteSectionExclusive ==
    /\ \A t \in Threads : InWriteSection(t) => memLock = t
    /\ \A t, u \in Threads : (InWriteSection(t) /\ InWriteSection(u)) => t = u

----------------------------------------------------------------------------
(* More properties of the callbacks under Spec *)

\* C28: atualizar calls load_data only when a click on "Atualizar dados"
\* triggered it; triggered by a filter it uses DF_BASE, also after a click.
C28_ReloadOnlyOnClick ==
    (last.op = "atualizar" /\ last.loaded) => last.click

\* C29: the key under which persistir_valores stores the values edited for
\* a name is the key _merge_persisted_into_df looks up for that name: after
\* an edit that was stored, the merge of the stored values finds the edited
\* value for the row edited.  Stated for sources with distinct names.
\* the names of the source are distinct
DistinctNames == \A i, j \in DOMAIN dfBase : dfBase[i] = dfBase[j] => i = j

C29_WriteKeyIsLookupKey ==
    (DistinctNames /\ last.op = "persistir" /\ ~last.raised /\ ~last.wfail) =>
        /\ last.nome \in DOMAIN DiskDict
        /\ \A i \in DOMAIN dfBase :
              dfBase[i] = last.nome =>
                  ShowsLastEdit(MergeRow(DiskDict, dfBase[i]))

\* the value stored on disk for the cell the last edit changed is the value
\* entered
StoredIsEdited ==
    LET k == Strip(last.nome)
    IN /\ k \in DOMAIN DiskDict
       /\ DiskDict[k].dict
       /\ DiskDict[k][last.col] = lastEdit[last.nome][last.col]

\* C30: when several rows of the table have the same name and the user
\* edits the planned or paid value in one of them, the value stored for the
\* name is the value entered, whichever of the rows was edited.
C30_DuplicateNamesStoreEdit ==
    (last.op = "persistir" /\ ~last.raised /\ ~last.wfail) => StoredIsEdited

\* the same for sources with distinct names
C30_DistinctNamesStoreEdit ==
    (DistinctNames /\ last.op = "persistir" /\ ~last.raised /\ ~last.wfail) => StoredIsEdited

====
